---- MODULE Spec2Model ----
(***************************************************************************)
(* Model of to-polite-rs (src/src/lib.rs): the clause splitter, the polite *)
(* and plain (impolite) transformers and the two public entry points.      *)
(*                                                                         *)
(* Text is a sequence of kana, each kana written in romaji as one TLA+     *)
(* string ("de","su" for the two kana of desu), so that two texts are      *)
(* equal exactly when their kana sequences are equal.                      *)
(***************************************************************************)
EXTENDS Integers, Sequences, FiniteSets, TLC

VARIABLES
    orig,         \* the token stream parser.parse(orig) produced
    mode,         \* "polite" (to_polite_sentence) or "impolite"
    curr,         \* Splitter.curr : Option<Morpheme>, <<>> is None
    next,         \* Splitter.next : Option<Morpheme>
    rest,         \* Splitter.rest : the iterator's remaining items
    parts,        \* Splitter.parts
    part,         \* Splitter.part
    paren_level,  \* Splitter.paren_level : u32
    breaks,       \* ghost: paren_level observed at each break_part call
    clauses,      \* the Vec<Part> break_into_parts returned
    k,            \* how many clauses the map/collect iterator has consumed
    out,          \* the String collected so far
    pc,           \* "scan", "transform", "done" or "panic"
    err,          \* the panic that ended the run, "" if none
    build         \* overflow-checks of the build: "checked" (debug), "wrapping"
                  \* (release), or "any" while no overflow has shown which

vars == <<orig, mode, curr, next, rest, parts, part, paren_level, breaks,
          clauses, k, out, pc, err, build>>

\* ------------------------------------------------------------------ bounds
\* longest document of the document-level specification
MaxLen == 4
\* longest clause body of the clause-level specification
MaxBody == 3

\* ------------------------------------------------------------- sequences
Last(s) == s[Len(s)]

Front(s) == SubSeq(s, 1, Len(s) - 1)

EndsWith(s, e) ==
    /\ Len(e) <= Len(s)
    /\ SubSeq(s, Len(s) - Len(e) + 1, Len(s)) = e

RECURSIVE SeqsUpTo(_, _)
SeqsUpTo(S, n) ==
    IF n = 0 THEN {<<>>}
    ELSE LET shorter == SeqsUpTo(S, n - 1)
         IN  shorter \cup {Append(s, x) : s \in {t \in shorter : Len(t) = n - 1}, x \in S}

\* --------------------------------------------------------------- Morpheme
\* typed_igo::Morpheme, the fields the program reads: surface, basic (the
\* lemma), wordclass and conjugation {kind, form}.
Tok(surface, basic, wordclass, kind, form) ==
    [surface |-> surface, basic |-> basic, wordclass |-> wordclass,
     kind |-> kind, form |-> form]

Sym(surface, wordclass) == Tok(surface, surface, wordclass, "None", "None")

OpenParen == Sym(<<"[">>, "Symbol.OpenParen")
CloseParen == Sym(<<"]">>, "Symbol.CloseParen")
Period == Sym(<<".">>, "Symbol.Period")
Comma == Sym(<<",">>, "Symbol.Comma")
Ga == Sym(<<"ga">>, "Postpositional.Conjunction")
Kara == Sym(<<"ka", "ra">>, "Postpositional.Conjunction")
Ka == Sym(<<"ka">>, "Postpositional.End")
Ne == Sym(<<"ne">>, "Postpositional.SupplementaryParallelEnd")
Tenki == Sym(<<"tenki">>, "Noun")
Da == Tok(<<"da">>, <<"da">>, "AuxiliaryVerb", "SpecialDa", "Basic")
Desu == Tok(<<"de", "su">>, <<"de", "su">>, "AuxiliaryVerb", "SpecialDesu", "Basic")
Desho == Tok(<<"de", "shi", "xyo">>, <<"de", "su">>, "AuxiliaryVerb", "SpecialDesu", "NegativeU")
Masu == Tok(<<"ma", "su">>, <<"ma", "su">>, "AuxiliaryVerb", "SpecialMasu", "Basic")
Mashi == Tok(<<"ma", "shi">>, <<"ma", "su">>, "AuxiliaryVerb", "SpecialMasu", "Continuous")
Mase == Tok(<<"ma", "se">>, <<"ma", "su">>, "AuxiliaryVerb", "SpecialMasu", "Negative")
Ta == Tok(<<"ta">>, <<"ta">>, "AuxiliaryVerb", "SpecialTa", "Basic")
Tara == Tok(<<"ta", "ra">>, <<"ta">>, "AuxiliaryVerb", "SpecialTa", "Hypothetical")
U == Tok(<<"u">>, <<"u">>, "AuxiliaryVerb", "Invariant", "Basic")
N == Tok(<<"n">>, <<"n">>, "AuxiliaryVerb", "Invariant", "Basic")
Nai == Tok(<<"na", "i">>, <<"na", "i">>, "AuxiliaryVerb", "SpecialNai", "Basic")
Aru == Tok(<<"a", "ru">>, <<"a", "ru">>, "AuxiliaryVerb", "GodanRaAru", "Basic")
Samui == Tok(<<"samu", "i">>, <<"samu", "i">>, "Adjective", "AdjI", "Basic")
Samukaxtu == Tok(<<"samu", "ka", "xtu">>, <<"samu", "i">>, "Adjective", "AdjI", "ContinuousTa")
Yurusu == Tok(<<"yuru", "su">>, <<"yuru", "su">>, "Verb", "GodanSa", "Basic")
Yurusa == Tok(<<"yuru", "sa">>, <<"yuru", "su">>, "Verb", "GodanSa", "Negative")
Kawaru == Tok(<<"kawa", "ru">>, <<"kawa", "ru">>, "Verb", "GodanRa", "Basic")
Shinzuru == Tok(<<"shin", "zu", "ru">>, <<"shin", "zu", "ru">>, "Verb", "SahenZuruConnected", "Basic")
Tamau == Tok(<<"tama", "u">>, <<"tama", "u">>, "Verb", "YodanHa", "Basic")

\* create_period("。"): the synthetic separator push_last inserts
create_period == Sym(<<".">>, "Symbol.Period")

\* ---------------------------------------------------------------- results
\* A String-returning function that may panic: ok with its text, or the panic.
\* asked is a ghost field: the (lemma, slot) pairs handed to the copula table.
\* calls is a ghost field: the body length of every invocation of the
\* transformer made while computing the result, outermost first.
Ok(text) == [ok |-> TRUE, text |-> text, err |-> "", asked |-> {}, calls |-> <<>>]

Fail(e) == [ok |-> FALSE, text |-> <<>>, err |-> e, asked |-> {}, calls |-> <<>>]

\* a + b on Strings, evaluated left to right: a panic on the left wins
\* (x and y bind the two operands so that each is evaluated once)
Cat(a, b) ==
    CHOOSE r \in {IF ~x.ok THEN x
                  ELSE IF ~y.ok THEN [y EXCEPT !.asked = x.asked \cup y.asked,
                                               !.calls = x.calls \o y.calls]
                  ELSE [ok |-> TRUE, text |-> x.text \o y.text, err |-> "",
                        asked |-> x.asked \cup y.asked, calls |-> x.calls \o y.calls] :
                  x \in {a}, y \in {b}} : TRUE

RECURSIVE morphs_to_string(_)
morphs_to_string(morphs) ==
    IF morphs = <<>> THEN <<>>
    ELSE morphs[1].surface \o morphs_to_string(Tail(morphs))

\* ------------------------------------------------------ InflectionAdapter
\* conjugation::convert is an external crate.  It is modelled as a table of
\* endings per (kind, form): a conversion exists when the table has an
\* ending for both forms and the surface carries the ending of its form.
\* Some(x) is <<x>>, no rule is <<>>.
EndingTable ==
    [SpecialDa   |-> [Basic |-> <<"da">>, NegativeU |-> <<"da", "ro">>,
                      ContinuousTa |-> <<"da", "xtu">>, Continuous |-> <<"de">>],
     SpecialTa   |-> [Basic |-> <<"ta">>, Hypothetical |-> <<"ta", "ra">>,
                      NegativeU |-> <<"ta", "ro">>],
     SpecialDesu |-> [Basic |-> <<"de", "su">>, NegativeU |-> <<"de", "shi", "xyo">>,
                      Continuous |-> <<"de", "shi">>],
     SpecialMasu |-> [Basic |-> <<"ma", "su">>, Negative |-> <<"ma", "se">>,
                      NegativeU |-> <<"ma", "shi", "xyo">>, Continuous |-> <<"ma", "shi">>],
     SpecialNai  |-> [Basic |-> <<"na", "i">>, ContinuousTa |-> <<"na", "ka", "xtu">>,
                      ContinuousDe |-> <<"na", "ku">>],
     AdjI        |-> [Basic |-> <<"i">>, ContinuousTa |-> <<"ka", "xtu">>,
                      ContinuousDe |-> <<"ku">>],
     GodanSa     |-> [Basic |-> <<"su">>, Negative |-> <<"sa">>, NegativeU |-> <<"so">>,
                      Continuous |-> <<"shi">>],
     GodanRa     |-> [Basic |-> <<"ru">>, Negative |-> <<"ra">>, NegativeU |-> <<"ro">>,
                      Continuous |-> <<"ri">>, ContinuousTa |-> <<"xtu">>],
     GodanRaAru  |-> [Basic |-> <<"ru">>, Negative |-> <<"ra">>, NegativeU |-> <<"ro">>,
                      Continuous |-> <<"ri">>, ContinuousTa |-> <<"xtu">>]]

Ending(kind, form) ==
    IF kind \in DOMAIN EndingTable
    THEN IF form \in DOMAIN EndingTable[kind] THEN <<EndingTable[kind][form]>> ELSE <<>>
    ELSE <<>>

convert(surface, kind, from, to) ==
    LET ef == Ending(kind, from)
        et == Ending(kind, to)
    IN  IF ef = <<>> \/ et = <<>> THEN <<>>
        ELSE IF ~EndsWith(surface, ef[1]) THEN <<>>
        ELSE << SubSeq(surface, 1, Len(surface) - Len(ef[1])) \o et[1] >>

\* convert(..).expect(..): the adapter's text, or the panic of expect
Expect(r) == IF r = <<>> THEN Fail("AdapterFailure") ELSE Ok(r[1])

\* ------------------------------------------------------------ take_ends
IsEnd(m) == m.wordclass \in {"Postpositional.End", "Postpositional.SupplementaryParallelEnd"}

\* a take_ends that pops one final particle and stops
take_ends_OnlyLast(morphs) ==
    IF morphs = <<>> THEN [morphs |-> <<>>, ends |-> <<>>]
    ELSE IF IsEnd(Last(morphs))
         THEN [morphs |-> Front(morphs), ends |-> Last(morphs).surface]
         ELSE [morphs |-> morphs, ends |-> <<>>]

RECURSIVE take_ends(_)
\* pops the trailing run of final particles; returns what is left of morphs
\* and the particles' surfaces joined in their original order
take_ends(morphs) ==
    IF morphs = <<>> THEN [morphs |-> <<>>, ends |-> <<>>]
    ELSE IF IsEnd(Last(morphs))
         THEN LET r == take_ends(Front(morphs))
              IN  [morphs |-> r.morphs, ends |-> r.ends \o Last(morphs).surface]
         ELSE [morphs |-> morphs, ends |-> <<>>]

\* ------------------------------------------------------- make_continuous
make_continuous(basic, surface, conjugation) ==
    LET kind == conjugation.kind
        form == conjugation.form
    IN  CASE kind = "SahenSuruConnected" ->
               Expect(convert(surface, kind, form, "Negative"))
          [] kind = "SahenZuruConnected" ->
               \* &basic[0..basic.len() - "ずる".len()] + "じ"
               IF Len(basic) < 2 THEN Fail("SliceFailure")
               ELSE Ok(SubSeq(basic, 1, Len(basic) - 2) \o <<"ji">>)
          [] kind = "IchidanRu" -> Ok(basic)
          [] kind \in {"SpecialNai", "SpecialTai"} ->
               Expect(convert(surface, kind, form, "ContinuousDe"))
          [] OTHER -> Expect(convert(surface, kind, form, "Continuous"))

Conj(m) == [kind |-> m.kind, form |-> m.form]

\* ----------------------------------------------------- Part::into_polite
\* a copula table without the entry (masu, Negative)
FixLastPolite_WithoutMasuNegative(lemma, last_form) ==
    LET r == CASE lemma = <<"de", "su">> /\ last_form = "Basic" -> Ok(<<"de", "su">>)
               [] lemma = <<"de", "su">> /\ last_form = "NegativeU" -> Ok(<<"de", "shi", "xyo">>)
               [] lemma = <<"ma", "su">> /\ last_form = "Basic" -> Ok(<<"ma", "su">>)
               [] lemma = <<"ma", "su">> /\ last_form = "NegativeU" -> Ok(<<"ma", "shi", "xyo">>)
               [] OTHER -> Fail("UnsupportedCopulaPairing")
    IN  [r EXCEPT !.asked = {<<lemma, last_form>>}]

\* a copula table that answers every request with the Basic entry
FixLastPolite_IgnoringSlot(lemma, last_form) ==
    LET r == CASE lemma = <<"de", "su">> -> Ok(<<"de", "su">>)
               [] lemma = <<"ma", "su">> -> Ok(<<"ma", "su">>)
               [] OTHER -> Fail("UnsupportedCopulaPairing")
    IN  [r EXCEPT !.asked = {<<lemma, last_form>>}]

\* the fixlast closure of into_polite: the copula table
FixLastPolite(lemma, last_form) ==
    LET r == CASE lemma = <<"de", "su">> /\ last_form = "Basic" -> Ok(<<"de", "su">>)
               [] lemma = <<"de", "su">> /\ last_form = "NegativeU" -> Ok(<<"de", "shi", "xyo">>)
               [] lemma = <<"ma", "su">> /\ last_form = "Basic" -> Ok(<<"ma", "su">>)
               [] lemma = <<"ma", "su">> /\ last_form = "Negative" -> Ok(<<"ma", "se">>)
               [] lemma = <<"ma", "su">> /\ last_form = "NegativeU" -> Ok(<<"ma", "shi", "xyo">>)
               [] OTHER -> Fail("UnsupportedCopulaPairing")
    IN  [r EXCEPT !.asked = {<<lemma, last_form>>}]

Part_new(morphs) == [morphs |-> morphs, sep |-> <<>>]

Part_with_sep(morphs, sep) == [morphs |-> morphs, sep |-> <<sep>>]

SepSurface(sep) == IF sep = <<>> THEN <<>> ELSE sep[1].surface

RECURSIVE into_polite(_, _)

\* the match on `last` of into_polite: morphs is the body with the final
\* particles and `last` already popped
PoliteWithoutSep(last, morphs, last_form) ==
    LET pre == morphs_to_string(morphs)
        has == morphs # <<>>
        prior == IF has THEN Last(morphs) ELSE last
        pre2 == IF has THEN morphs_to_string(Front(morphs)) ELSE <<>>
    IN  CASE last.basic \in {<<"de", "su">>, <<"ma", "su">>} ->
               Ok(pre \o last.surface)
          [] OTHER ->
        CASE last.wordclass = "AuxiliaryVerb" /\ last.basic = <<"da">> ->
               Cat(Ok(pre), FixLastPolite(<<"de", "su">>, last_form))
          [] OTHER ->
        CASE last.wordclass = "Verb" ->
               Cat(Cat(Ok(pre), make_continuous(last.basic, last.surface, Conj(last))),
                   FixLastPolite(<<"ma", "su">>, last_form))
          [] OTHER ->
        CASE last.wordclass = "AuxiliaryVerb" /\ last.basic = <<"a", "ru">> ->
               IF ~has THEN Cat(Ok(<<"a", "ri">>), FixLastPolite(<<"ma", "su">>, last_form))
               ELSE IF prior.wordclass = "AuxiliaryVerb" /\ prior.basic = <<"da">>
               THEN Cat(Ok(pre2), FixLastPolite(<<"de", "su">>, last_form))
               ELSE Cat(Ok(pre2 \o prior.surface \o <<"a", "ri">>),
                        FixLastPolite(<<"ma", "su">>, last_form))
          [] OTHER ->
        CASE last.wordclass \in {"AuxiliaryVerb", "Adjective"} /\ last.basic = <<"na", "i">> ->
               IF ~has THEN Ok(<<"a", "ri", "ma", "se", "n">>)
               ELSE IF prior.wordclass = "AuxiliaryVerb" /\ prior.basic = <<"de">>
               THEN Ok(pre2 \o <<"de", "ha", "a", "ri", "ma", "se", "n">>)
               ELSE IF prior.wordclass = "Verb"
               THEN Cat(Cat(Ok(pre2), make_continuous(prior.basic, prior.surface, Conj(prior))),
                        Ok(<<"ma", "se", "n">>))
               ELSE Ok(pre2 \o prior.surface \o <<"a", "ri", "ma", "se", "n">>)
          [] OTHER ->
        CASE last.wordclass = "AuxiliaryVerb" /\ last.basic = <<"ta">> ->
               IF ~has THEN Ok(<<"ta", "de", "su">>)
               ELSE IF prior.basic \in {<<"de", "su">>, <<"ma", "su">>}
               THEN Ok(pre2 \o prior.surface \o <<"ta">>)
               ELSE IF prior.wordclass = "Verb"
               THEN Cat(Cat(Ok(pre2), make_continuous(prior.basic, prior.surface, Conj(prior))),
                        Ok(<<"ma", "shi", "ta">>))
               ELSE IF prior.wordclass = "AuxiliaryVerb" /\ prior.basic = <<"da">>
               THEN Ok(pre2 \o <<"de", "shi", "ta">>)
               ELSE IF prior.wordclass = "AuxiliaryVerb" /\ prior.basic = <<"a", "ru">>
               THEN Ok(pre2 \o <<"shi", "ta">>)
               ELSE IF prior.basic = <<"na", "i">>
               THEN Cat(into_polite(Part_new(morphs), "Basic"), Ok(<<"de", "shi", "ta">>))
               ELSE Ok(pre2 \o prior.surface \o <<"ta", "de", "su">>)
          [] OTHER ->
        CASE last.basic = <<"u">> ->
               Cat(into_polite(Part_new(morphs), "NegativeU"), Ok(<<"u">>))
          [] OTHER ->
        CASE last.basic = <<"n">> ->
               Cat(into_polite(Part_new(morphs), "Negative"), Ok(<<"n">>))
          [] OTHER -> Ok(pre \o last.surface \o <<"de", "su">>)

into_polite(self, last_form) ==
    LET sep_surface == SepSurface(self.sep)
        te == take_ends(self.morphs)
        r == IF te.morphs = <<>> THEN Ok(te.ends \o sep_surface)
             ELSE Cat(Cat(PoliteWithoutSep(Last(te.morphs), Front(te.morphs), last_form),
                          Ok(te.ends)),
                      Ok(sep_surface))
    IN  CHOOSE v \in {[x EXCEPT !.calls = <<Len(self.morphs)>> \o x.calls] : x \in {r}} : TRUE

\* --------------------------------------------------- Part::into_impolite
\* a fix that keeps looking after the first conversion that exists
fix_LastSupported(surface, kind, from, to) ==
    LET found == {i \in 1..Len(to) : convert(surface, kind, from, to[i]) # <<>>}
        last == CHOOSE i \in found : \A j \in found : i >= j
    IN  IF found = {} THEN surface
        ELSE convert(surface, kind, from, to[last])[1]

\* the fix closure:
\*   to.iter().find_map(|&to| convert(orig, kind, from, to).ok())
\*     .unwrap_or_else(|| orig.to_string())
\* the first conversion of the list that exists, else the surface itself
fix(surface, kind, from, to) ==
    LET found == {i \in 1..Len(to) : convert(surface, kind, from, to[i]) # <<>>}
        first == CHOOSE i \in found : \A j \in found : i <= j
    IN  IF found = {} THEN surface
        ELSE convert(surface, kind, from, to[first])[1]

\* a fixlast whose match lacks the arm for da
FixLastKind_WithoutDa(lemma) ==
    CASE lemma = <<"ta">> -> "SpecialTa"
      [] lemma = <<"a", "ru">> -> "GodanRaAru"
      [] lemma = <<"de", "su">> -> "SpecialDesu"
      [] lemma = <<"ma", "su">> -> "SpecialMasu"
      [] lemma = <<"na", "i">> -> "SpecialNai"
      [] OTHER -> "panic"

\* the fixlast closure of into_impolite: the paradigm of each literal
FixLastKind(lemma) ==
    CASE lemma = <<"da">> -> "SpecialDa"
      [] lemma = <<"ta">> -> "SpecialTa"
      [] lemma = <<"a", "ru">> -> "GodanRaAru"
      [] lemma = <<"de", "su">> -> "SpecialDesu"
      [] lemma = <<"ma", "su">> -> "SpecialMasu"
      [] lemma = <<"na", "i">> -> "SpecialNai"
      [] OTHER -> "panic"

\* a fixlast that takes every literal for da
FixLastImpolite_AsDa(lemma, last_forms) ==
    Ok(fix(<<"da">>, "SpecialDa", "Basic", last_forms))

FixLastImpolite(lemma, last_forms) ==
    IF FixLastKind(lemma) = "panic" THEN Fail("unsupported conversion")
    ELSE Ok(fix(lemma, FixLastKind(lemma), "Basic", last_forms))

FixTok(m, to) == fix(m.surface, m.kind, m.form, to)

IsAux(m, lemma) == m.wordclass = "AuxiliaryVerb" /\ m.basic = lemma

RECURSIVE into_impolite(_, _)

\* the match on `last` of into_impolite: morphs is the body with the final
\* particles (ends) and `last` already popped
ImpoliteWithoutSep(last, morphs, ends, last_forms) ==
    LET pre == morphs_to_string(morphs)
        has == morphs # <<>>
        prior == IF has THEN Last(morphs) ELSE last
        morphs2 == IF has THEN Front(morphs) ELSE <<>>
        pre2 == morphs_to_string(morphs2)
        has2 == morphs2 # <<>>
        further == IF has2 THEN Last(morphs2) ELSE last
        pre3 == IF has2 THEN morphs_to_string(Front(morphs2)) ELSE <<>>
        da_unless_ends == IF ends = <<>> THEN FixLastImpolite(<<"da">>, last_forms) ELSE Ok(<<>>)
        CTaC == <<"ContinuousTa", "Continuous">>
    IN  CASE IsAux(last, <<"da">>) -> Cat(Ok(pre), FixLastImpolite(<<"da">>, last_forms))
          [] IsAux(last, <<"a", "ru">>) -> Cat(Ok(pre), FixLastImpolite(<<"a", "ru">>, last_forms))
          [] IsAux(last, <<"de", "su">>) ->
               IF ~has THEN da_unless_ends
               ELSE IF prior.wordclass = "Adjective" THEN Ok(pre2 \o prior.surface)
               ELSE IF IsAux(prior, <<"ta">>) THEN Cat(Ok(pre2), FixLastImpolite(<<"ta">>, last_forms))
               ELSE Cat(Ok(pre2 \o prior.surface), da_unless_ends)
          [] IsAux(last, <<"ma", "su">>) ->
               IF ~has THEN Ok(<<>>)
               ELSE IF prior.wordclass = "Verb" THEN Ok(pre2 \o FixTok(prior, last_forms))
               ELSE Ok(pre2 \o prior.surface)
          [] IsAux(last, <<"u">>) ->
               IF ~has THEN Ok(<<"u">>)
               ELSE IF IsAux(prior, <<"de", "su">>) THEN Ok(pre2 \o <<"da", "ro", "u">>)
               ELSE IF IsAux(prior, <<"ma", "su">>)
               THEN IF ~has2 THEN Ok(<<"u">>)
                    ELSE Ok(pre3 \o FixTok(further, <<"NegativeU", "Negative">>) \o <<"u">>)
               ELSE Ok(pre2 \o prior.surface \o <<"u">>)
          [] IsAux(last, <<"n">>) ->
               IF ~has THEN FixLastImpolite(<<"na", "i">>, last_forms)
               ELSE IF IsAux(prior, <<"ma", "su">>)
               THEN IF ~has2 THEN Ok(<<>>)
                    ELSE IF further.wordclass = "Verb" /\ further.basic = <<"a", "ru">>
                    THEN Cat(Ok(pre3), FixLastImpolite(<<"na", "i">>, last_forms))
                    ELSE Cat(Ok(pre3 \o FixTok(further, <<"Negative">>)),
                             FixLastImpolite(<<"na", "i">>, last_forms))
               ELSE Cat(Ok(pre2 \o FixTok(prior, <<"Negative">>)),
                        FixLastImpolite(<<"na", "i">>, last_forms))
          [] IsAux(last, <<"ta">>) ->
               IF ~has THEN FixLastImpolite(<<"ta">>, last_forms)
               ELSE IF IsAux(prior, <<"de", "su">>)
               THEN Cat(into_impolite(Part_new(morphs), CTaC), FixLastImpolite(<<"ta">>, last_forms))
               ELSE IF IsAux(prior, <<"ma", "su">>)
               THEN IF ~has2 THEN FixLastImpolite(<<"ta">>, last_forms)
                    ELSE Cat(Ok(pre3 \o FixTok(further, CTaC)), FixLastImpolite(<<"ta">>, last_forms))
               ELSE Cat(Ok(pre2 \o FixTok(prior, CTaC)), FixLastImpolite(<<"ta">>, last_forms))
          [] OTHER -> Ok(pre \o FixTok(last, last_forms))

into_impolite(self, last_forms) ==
    LET sep_surface == SepSurface(self.sep)
        te == take_ends(self.morphs)
        r == IF te.morphs = <<>> THEN Ok(te.ends \o sep_surface)
             ELSE Cat(Cat(ImpoliteWithoutSep(Last(te.morphs), Front(te.morphs), te.ends, last_forms),
                          Ok(te.ends)),
                      Ok(sep_surface))
    IN  CHOOSE v \in {[x EXCEPT !.calls = <<Len(self.morphs)>> \o x.calls] : x \in {r}} : TRUE

\* --------------------------------------------------------------- Splitter
\* TLC's integers are 32-bit signed, so a u32 is kept as two 16-bit halves:
\* the value is hi * 65536 + lo.
Half == 65536

U32(hi, lo) == [hi |-> hi, lo |-> lo]

U32Zero == U32(0, 0)

U32Max == U32(Half - 1, Half - 1)

U32Inc(v) == IF v.lo = Half - 1 THEN U32((v.hi + 1) % Half, 0) ELSE U32(v.hi, v.lo + 1)

U32Dec(v) == IF v.lo = 0 THEN U32((v.hi + Half - 1) % Half, Half - 1) ELSE U32(v.hi, v.lo - 1)

\* an overflowing u32 operation: a panic when the build checks overflow, the
\* wrapped value when it does not
Overflow(level, wrapped, b) ==
    {o \in {[panic |-> TRUE, level |-> level, build |-> "checked"],
            [panic |-> FALSE, level |-> wrapped, build |-> "wrapping"]} :
        b \in {"any", o.build}}

\* handle_paren_count: the outcomes of paren_level += 1 / -= 1
HandleParenCount(level, m, b) ==
    CASE m.wordclass = "Symbol.OpenParen" ->
           IF level = U32Max THEN Overflow(level, U32Inc(level), b)
           ELSE {[panic |-> FALSE, level |-> U32Inc(level), build |-> b]}
      [] m.wordclass = "Symbol.CloseParen" ->
           IF level = U32Zero THEN Overflow(level, U32Dec(level), b)
           ELSE {[panic |-> FALSE, level |-> U32Dec(level), build |-> b]}
      [] OTHER -> {[panic |-> FALSE, level |-> level, build |-> b]}

\* a should_be_break without the paren_level guard
should_be_break_IgnoringDepth(level, m) ==
    CASE m.wordclass = "Symbol.Period" -> TRUE
      [] m.wordclass = "Postpositional.Conjunction" -> m.basic = <<"ga">>
      [] OTHER -> FALSE

should_be_break(level, m) ==
    IF level # U32Zero THEN FALSE  \* self.paren_level >= 1
    ELSE CASE m.wordclass = "Symbol.Period" -> TRUE
           [] m.wordclass = "Postpositional.Conjunction" -> m.basic = <<"ga">>
           [] OTHER -> FALSE

\* rest.next() of a fused iterator
IterNext(it) == IF it = <<>> THEN <<>> ELSE <<Head(it)>>

IterRest(it) == IF it = <<>> THEN <<>> ELSE Tail(it)

\* Splitter::new
Splitter_new(tokens) ==
    /\ curr = IterNext(tokens)
    /\ next = IterNext(IterRest(tokens))
    /\ rest = IterRest(IterRest(tokens))
    /\ parts = <<>>
    /\ part = <<>>
    /\ paren_level = U32Zero

\* a step_once that drops next and takes two items from the iterator
StepOnce_SkippingOne ==
    /\ curr' = IterNext(rest)
    /\ next' = IterNext(IterRest(rest))
    /\ rest' = IterRest(IterRest(rest))

\* step_once: curr <- next <- rest.next()
StepOnce ==
    /\ curr' = next
    /\ next' = IterNext(rest)
    /\ rest' = IterRest(rest)

\* a break_part that pushes the separator and loses the body
break_part_parts_LosingBody(ps, body, sep) == Append(ps, Part_with_sep(<<>>, sep))

\* break_part: the body so far and curr, as separator, become a Part
break_part_parts(ps, body, sep) == Append(ps, Part_with_sep(body, sep))

\* One iteration of the loop of break_into_parts that ends in break_part.
BreakPart ==
    /\ pc = "scan"
    /\ curr # <<>>
    /\ \E o \in HandleParenCount(paren_level, curr[1], build) :
         /\ ~o.panic
         /\ should_be_break(o.level, curr[1])
         /\ paren_level' = o.level
         /\ build' = o.build
         /\ parts' = break_part_parts(parts, part, curr[1])
         /\ part' = <<>>
         /\ breaks' = Append(breaks, o.level)
    /\ StepOnce
    /\ UNCHANGED <<orig, mode, clauses, k, out, pc, err>>

\* One iteration of the loop that ends in push_curr.
PushCurr ==
    /\ pc = "scan"
    /\ curr # <<>>
    /\ \E o \in HandleParenCount(paren_level, curr[1], build) :
         /\ ~o.panic
         /\ ~should_be_break(o.level, curr[1])
         /\ paren_level' = o.level
         /\ build' = o.build
         /\ part' = Append(part, curr[1])
    /\ StepOnce
    /\ UNCHANGED <<orig, mode, parts, breaks, clauses, k, out, pc, err>>

\* handle_paren_count overflows in a build that checks overflow: the panic
\* unwinds out of to_polite_sentence / to_impolite_sentence.
ParenPanic ==
    /\ pc = "scan"
    /\ curr # <<>>
    /\ \E o \in HandleParenCount(paren_level, curr[1], build) :
         /\ o.panic
         /\ build' = o.build
    /\ pc' = "panic"
    /\ err' = "attempt to subtract with overflow"
    /\ UNCHANGED <<orig, mode, curr, next, rest, parts, part, paren_level, breaks,
                   clauses, k, out>>

\* a push_last without the `if !self.part.is_empty()` guard
PushLast_Unguarded ==
    /\ pc = "scan"
    /\ curr = <<>>
    /\ clauses' = Append(parts, Part_with_sep(part, create_period))
    /\ breaks' = Append(breaks, paren_level)
    /\ parts' = <<>>
    /\ part' = <<>>
    /\ curr' = next
    /\ pc' = "transform"
    /\ UNCHANGED <<orig, mode, next, rest, paren_level, k, out, err, build>>

\* is_finished(): push_last, then break_into_parts returns self.parts
PushLast ==
    /\ pc = "scan"
    /\ curr = <<>>
    /\ clauses' = IF part # <<>>
                  THEN break_part_parts(parts, part, create_period)
                  ELSE parts
    /\ breaks' = IF part # <<>> THEN Append(breaks, paren_level) ELSE breaks
    /\ parts' = <<>>
    /\ part' = <<>>
    /\ curr' = next
    /\ pc' = "transform"
    /\ UNCHANGED <<orig, mode, next, rest, paren_level, k, out, err, build>>

\* ---------------------------------- to_polite_sentence / to_impolite_sentence
TransformPart(p) ==
    IF mode = "polite" THEN into_polite(p, "Basic")
    ELSE into_impolite(p, <<"Basic">>)

\* a collect that puts each new text in front
Collected_Prepending(sofar, text) == text \o sofar

\* what collect() does with the text of one more clause
Collected(sofar, text) == sofar \o text

\* .map(|part| part.into_polite(F::Basic)) pulled once by collect()
Transform ==
    /\ pc = "transform"
    /\ k < Len(clauses)
    /\ LET r == TransformPart(clauses[k + 1])
       IN  IF r.ok
           THEN /\ out' = Collected(out, r.text)
                /\ k' = k + 1
                /\ UNCHANGED <<pc, err>>
           ELSE /\ pc' = "panic"
                /\ err' = r.err
                /\ UNCHANGED <<out, k>>
    /\ UNCHANGED <<orig, mode, curr, next, rest, parts, part, paren_level, breaks,
                   clauses, build>>

\* the iterator is exhausted: collect() returns the String
Collect ==
    /\ pc = "transform"
    /\ k = Len(clauses)
    /\ pc' = "done"
    /\ UNCHANGED <<orig, mode, curr, next, rest, parts, part, paren_level, breaks,
                   clauses, k, out, err, build>>

Next == BreakPart \/ PushCurr \/ ParenPanic \/ PushLast \/ Transform \/ Collect

\* ---------------------------------------------------------- specifications
Start(tokens) ==
    /\ orig = tokens
    /\ mode \in {"polite", "impolite"}
    /\ Splitter_new(tokens)
    /\ breaks = <<>>
    /\ clauses = <<>>
    /\ k = 0
    /\ out = <<>>
    /\ pc = "scan"
    /\ err = ""
    /\ build = "any"

\* Documents: every token stream up to MaxLen over the tokens the splitter
\* tells apart, with a copula and a noun as the words.
DocTokens == {OpenParen, CloseParen, Period, Ga, Kara, Da, Desu, Tenki}

Init == \E tokens \in SeqsUpTo(DocTokens, MaxLen) : Start(tokens)

Spec == Init /\ [][Next]_vars

\* One-clause documents: every body up to MaxBody over the vocabulary the
\* transformers' rules tell apart, closed by a period.
ClauseTokens ==
    {Tenki, Samui, Da, Desu, Desho, Masu, Mashi, Mase, Ta, Tara, U, N, Nai, Aru,
     Yurusu, Kawaru, Tamau, Shinzuru, Ka, Ne, OpenParen, CloseParen}

InitClause == \E body \in SeqsUpTo(ClauseTokens, MaxBody) : Start(Append(body, Period))

SpecClause == InitClause /\ [][Next]_vars

\* One-clause documents over the tokens that make the transformers invoke
\* themselves (u, n, nai + ta, desu + ta) and the parentheses.
LiveTokens == {Kawaru, Nai, Desu, Ta, U, N, OpenParen, CloseParen}

InitLive == \E body \in SeqsUpTo(LiveTokens, MaxBody) : Start(Append(body, Period))

\* The program is one sequential, synchronous call: a step that can be
\* taken is taken.
SpecLive == InitLive /\ [][Next]_vars /\ WF_vars(Next)

\* ================================================================== claims
\* the tokens of a list of clauses: each body followed by its separator
RECURSIVE Flatten(_)
Flatten(ps) ==
    IF ps = <<>> THEN <<>>
    ELSE Head(ps).morphs \o Head(ps).sep \o Flatten(Tail(ps))

\* break_into_parts has returned
Returned == pc \in {"transform", "done"} \/ (pc = "panic" /\ err # "attempt to subtract with overflow")

\* the step in which break_into_parts returns (push_last and the return)
Returning == pc = "scan" /\ pc' = "transform"

\* ---- C1 ----------------------------------------------------------------
\* C1 as claimed: the clauses break_into_parts returns, bodies and
\* separators concatenated in order, are exactly the original tokens.
C1_LosslessAsClaimed == Returned => Flatten(clauses) = orig

\* C1 amended: when break_into_parts returns, the bodies and separators of
\* the clauses, in order, are the original tokens, followed by one synthetic
\* period exactly when tokens were accumulated after the last break.
C1_LosslessUpToSyntheticPeriod ==
    [][Returning =>
         Flatten(clauses') = orig \o (IF part # <<>> THEN <<create_period>> ELSE <<>>)]_vars

\* an unterminated document with two clauses and a parenthesis was split
C1_Witness ==
    /\ pc = "done"
    /\ Len(clauses) = 2
    /\ Len(Flatten(clauses)) = Len(orig) + 1
    /\ \E i \in DOMAIN orig : orig[i] = OpenParen

\* ---- C2 ----------------------------------------------------------------
\* C2 as claimed: paren_level is zero at every break_part, the one push_last
\* makes at the end of the stream included.
C2_DepthZeroAtEveryBoundaryAsClaimed == \A i \in DOMAIN breaks : breaks[i] = U32Zero

\* C2 amended: paren_level is zero at every break_part the scan makes (every
\* break should_be_break declares); the final clause push_last closes is
\* closed at whatever depth the scan ended with.
C2_DepthZeroAtScanBreaks == pc = "scan" => \A i \in DOMAIN breaks : breaks[i] = U32Zero

\* a break was declared after a parenthesis had been opened and closed
C2_Witness ==
    /\ pc = "scan"
    /\ Len(parts) = 1
    /\ \E i \in DOMAIN parts[1].morphs : parts[1].morphs[i] = CloseParen
    /\ \E i \in DOMAIN parts[1].morphs : parts[1].morphs[i] = OpenParen

\* ---- C3 ----------------------------------------------------------------
\* C3: a CloseParen scanned at depth zero leaves the depth at zero and the
\* splitter goes on scanning.
C3_UnderflowClampsToZero ==
    [][(pc = "scan" /\ curr = <<CloseParen>> /\ paren_level = U32Zero)
         => (pc' = "scan" /\ paren_level' = U32Zero)]_vars

\* ---- C7 ----------------------------------------------------------------
RECURSIVE TextsOf(_, _)
\* the transformed texts of the first n clauses, in clause order
TextsOf(ps, n) ==
    IF n = 0 THEN <<>>
    ELSE TextsOf(ps, n - 1) \o TransformPart(ps[n]).text

\* C7: the collected output is the texts of the clauses consumed so far, in
\* clause order, each the transformer's text for that clause alone and each
\* ending with its clause's separator; the returned String covers them all.
C7_OutputIsOrderedConcatenation ==
    pc \in {"transform", "done"} =>
        /\ out = TextsOf(clauses, k)
        /\ pc = "done" => k = Len(clauses)
        /\ \A i \in 1..k : EndsWith(TransformPart(clauses[i]).text, SepSurface(clauses[i].sep))

\* a document of two different clauses was transformed to the end
C7_Witness ==
    /\ pc = "done"
    /\ Len(clauses) = 2
    /\ clauses[1].morphs # clauses[2].morphs
    /\ clauses[1].morphs # <<>>
    /\ clauses[2].morphs # <<>>

\* ---- C10 ---------------------------------------------------------------
\* C10: every returned clause has exactly one separator; push_last adds a
\* clause closed by the synthetic period exactly when a body was left over,
\* so a document ending in a break gets no extra clause and the empty
\* document gets none at all.
C10_OneSeparatorAndSyntheticPeriod ==
    [][Returning =>
         /\ \A i \in DOMAIN clauses' : Len(clauses'[i].sep) = 1
         /\ Len(clauses') = Len(parts) + (IF part # <<>> THEN 1 ELSE 0)
         /\ SubSeq(clauses', 1, Len(parts)) = parts
         /\ part # <<>> => Last(clauses') = [morphs |-> part, sep |-> <<create_period>>]
         /\ (part = <<>> /\ orig # <<>>) => Last(clauses').sep = <<Last(orig)>>
         /\ orig = <<>> => clauses' = <<>>]_vars

\* one clause ended by a break of the scan and one closed by push_last
C10_Witness ==
    /\ pc = "transform"
    /\ Len(clauses) = 2
    /\ clauses[1].sep = <<Ga>>
    /\ clauses[2].sep = <<create_period>>
    /\ Last(orig) # Period

\* the state right after break_into_parts returned: the clauses are fixed
\* from here on and the transformers are pure functions of them
JustReturned == pc = "transform" /\ k = 0

\* ---- C4 ----------------------------------------------------------------
S_desu == <<"de", "su">>

S_masu == <<"ma", "su">>

\* the predicate of the clause is already polite: after the final particles
\* the head is desu/masu, or ta/u/n directly preceded by desu/masu
AlreadyPolite(p) ==
    LET m == take_ends(p.morphs).morphs
    IN  /\ m # <<>>
        /\ \/ Last(m).basic \in {S_desu, S_masu}
           \/ /\ Last(m).basic \in {<<"ta">>, <<"u">>, <<"n">>}
              /\ Len(m) >= 2
              /\ m[Len(m) - 1].basic \in {S_desu, S_masu}

\* the original text of a clause: the surfaces of body and separator
PartText(p) == morphs_to_string(p.morphs) \o SepSurface(p.sep)

\* C4: to_polite_sentence returns a document of already-polite clauses
\* unchanged: each clause comes back as its original surfaces.
C4_AlreadyPoliteIsIdentity ==
    (mode = "polite" /\ JustReturned) =>
        \A i \in DOMAIN clauses :
            AlreadyPolite(clauses[i]) =>
                /\ into_polite(clauses[i], "Basic").ok
                /\ into_polite(clauses[i], "Basic").text = PartText(clauses[i])

\* ---- C5 ----------------------------------------------------------------
RECURSIVE Depth(_)
\* the nesting depth after a token sequence, counted over the integers
Depth(ts) ==
    IF ts = <<>> THEN 0
    ELSE Depth(Front(ts))
         + (IF Last(ts) = OpenParen THEN 1 ELSE IF Last(ts) = CloseParen THEN -1 ELSE 0)

\* orig[i] is an open paren and orig[j] the close paren matching it
Matching(i, j) ==
    /\ i < j
    /\ orig[i] = OpenParen
    /\ orig[j] = CloseParen
    /\ Depth(SubSeq(orig, i, j)) = 0
    /\ \A x \in i..(j - 1) : Depth(SubSeq(orig, i, x)) >= 1

Contains(text, piece) ==
    \E at \in 0..(Len(text) - Len(piece)) : SubSeq(text, at + 1, at + Len(piece)) = piece

\* the positions in orig of the separators the scan declared
SepPositions ==
    {Len(Flatten(SubSeq(clauses, 1, c))) : c \in DOMAIN clauses} \cap DOMAIN orig

\* C5: the tokens between a matching pair of parentheses come out with their
\* surfaces unchanged and contiguous, under both transformers, and no clause
\* break is declared between the pair.
C5_ParentheticalVerbatim ==
    pc = "done" =>
        \A i \in DOMAIN orig : \A j \in DOMAIN orig :
            Matching(i, j) =>
                /\ Contains(out, morphs_to_string(SubSeq(orig, i, j)))
                /\ SepPositions \cap (i..j) = {}

\* ---- C6 ----------------------------------------------------------------
\* the head falls under the default rule of into_polite
PoliteDefaultHead(h) ==
    /\ h.basic \notin {S_desu, S_masu, <<"u">>, <<"n">>}
    /\ h.wordclass # "Verb"
    /\ ~(h.wordclass = "AuxiliaryVerb" /\ h.basic \in {<<"da">>, <<"a", "ru">>, <<"ta">>, <<"na", "i">>})
    /\ ~(h.wordclass = "Adjective" /\ h.basic = <<"na", "i">>)

\* polite text of clause p, and plain text of the tokens `back` with p's separator
RoundTrip(p, politeText, back, plainText) ==
    /\ into_polite(p, "Basic").ok
    /\ into_polite(p, "Basic").text = politeText
    /\ into_impolite([morphs |-> back, sep |-> p.sep], <<"Basic">>).ok
    /\ into_impolite([morphs |-> back, sep |-> p.sep], <<"Basic">>).text = plainText

\* (a) head da, no final particles: prefix + desu + sep, and back to
\*     prefix + da + sep; restricted to the prefixes in `allowed`
RoundTripDa(p, allowed(_)) ==
    LET m == p.morphs
        pre == Front(m)
    IN  (m # <<>> /\ IsAux(Last(m), <<"da">>) /\ allowed(pre)) =>
            RoundTrip(p,
                      morphs_to_string(pre) \o S_desu \o SepSurface(p.sep),
                      Append(pre, Desu),
                      morphs_to_string(pre) \o <<"da">> \o SepSurface(p.sep))

\* (b) default-rule head followed by final particles: desu goes in before the
\*     particles and plain takes it out again
RoundTripParticles(p) ==
    LET te == take_ends(p.morphs)
        m == te.morphs
        particles == SubSeq(p.morphs, Len(m) + 1, Len(p.morphs))
    IN  (m # <<>> /\ particles # <<>> /\ PoliteDefaultHead(Last(m))) =>
            RoundTrip(p,
                      morphs_to_string(m) \o S_desu \o te.ends \o SepSurface(p.sep),
                      Append(m, Desu) \o particles,
                      PartText(p))

AnyPrefix(pre) == TRUE

\* the prefix does not end in an Adjective or in the auxiliary ta
NotAdjectiveOrTa(pre) ==
    pre = <<>> \/ (Last(pre).wordclass # "Adjective" /\ ~IsAux(Last(pre), <<"ta">>))

\* C6 as claimed: the round trip holds for every clause whose head is da.
C6_RoundTripAsClaimed ==
    JustReturned => \A i \in DOMAIN clauses :
        RoundTripDa(clauses[i], AnyPrefix) /\ RoundTripParticles(clauses[i])

\* C6 amended: the da round trip holds when the token before da is neither
\* an Adjective nor the auxiliary ta (after those the plain desu rule drops
\* desu and puts no da back); the particle round trip holds as claimed.
C6_RoundTrip ==
    JustReturned => \A i \in DOMAIN clauses :
        RoundTripDa(clauses[i], NotAdjectiveOrTa) /\ RoundTripParticles(clauses[i])

\* noun + da was made polite, and the polite tokens make the plain text
\* again; likewise noun + question particle
C6_Witness ==
    /\ pc = "done"
    /\ mode = "polite"
    /\ clauses = <<Part_with_sep(<<Tenki, Da>>, Period)>>
    /\ out = <<"tenki", "de", "su", ".">>
    /\ into_impolite(Part_with_sep(<<Tenki, Desu>>, Period), <<"Basic">>).text
           = <<"tenki", "da", ".">>
    /\ into_polite(Part_with_sep(<<Tenki, Ka>>, Period), "Basic").text
           = <<"tenki", "de", "su", "ka", ".">>
    /\ into_impolite(Part_with_sep(<<Tenki, Desu, Ka>>, Period), <<"Basic">>).text
           = <<"tenki", "ka", ".">>

\* ---- C8 ----------------------------------------------------------------
\* the copula table as the claim lists it
CopulaTable ==
    {<<S_desu, "Basic">>, <<S_desu, "NegativeU">>,
     <<S_masu, "Basic">>, <<S_masu, "Negative">>, <<S_masu, "NegativeU">>}

\* the continuative construction fails for some verb of the clause
ContinuativeFails(p) ==
    \E j \in DOMAIN p.morphs :
        /\ p.morphs[j].wordclass = "Verb"
        /\ ~make_continuous(p.morphs[j].basic, p.morphs[j].surface, Conj(p.morphs[j])).ok

\* C8: into_polite returns text or fails in one of two ways: with
\* UnsupportedCopulaPairing exactly when a rule asked the copula table for a
\* pair it does not hold, or with the adapter's failure inside the
\* continuative construction.
C8_PoliteFailsOnlyTwoWays ==
    /\ (pc = "panic" /\ mode = "polite") =>
           err \in {"UnsupportedCopulaPairing", "AdapterFailure", "attempt to subtract with overflow"}
    /\ JustReturned => \A i \in DOMAIN clauses : \A slot \in {"Basic", "Negative", "NegativeU"} :
           LET r == into_polite(clauses[i], slot)
           IN  /\ r.ok \/ r.err \in {"UnsupportedCopulaPairing", "AdapterFailure"}
               /\ (r.err = "UnsupportedCopulaPairing") <=> ~(r.asked \subseteq CopulaTable)
               /\ (r.err = "AdapterFailure") => ContinuativeFails(clauses[i])
               /\ r.ok => r.err = ""

\* da reached at slot Negative through the n rule: the copula table is asked
\* for (desu, Negative) and the conversion aborts
C8_Witness ==
    /\ pc = "panic"
    /\ err = "UnsupportedCopulaPairing"
    /\ clauses = <<Part_with_sep(<<Tenki, Da, N>>, Period)>>

\* ---- C9 ----------------------------------------------------------------
RECURSIVE FirstSupported(_, _)
\* the adapter's result for the first slot of the list it supports, else the
\* token's own surface
FirstSupported(m, slots) ==
    IF slots = <<>> THEN m.surface
    ELSE IF convert(m.surface, m.kind, m.form, Head(slots)) # <<>>
         THEN convert(m.surface, m.kind, m.form, Head(slots))[1]
         ELSE FirstSupported(m, Tail(slots))

\* the head falls under the default rule of into_impolite
ImpoliteDefaultHead(h) ==
    ~(h.wordclass = "AuxiliaryVerb"
      /\ h.basic \in {<<"da">>, <<"a", "ru">>, S_desu, S_masu, <<"u">>, <<"n">>, <<"ta">>})

SlotLists == {<<"Basic">>, <<"ContinuousTa", "Continuous">>, <<"NegativeU", "Negative">>}

\* C9: in the plain transformer a conversion takes the first slot of its
\* list that the adapter supports and falls back to the surface when none
\* is; into_impolite never aborts.
C9_PlainFirstSupportedSlotOrSurface ==
    /\ (pc = "panic" /\ mode = "impolite") => err = "attempt to subtract with overflow"
    /\ JustReturned => \A i \in DOMAIN clauses : \A slots \in SlotLists :
           LET p == clauses[i]
               te == take_ends(p.morphs)
               m == te.morphs
               r == into_impolite(p, slots)
               tail == te.ends \o SepSurface(p.sep)
           IN  /\ r.ok
               /\ (m # <<>> /\ ImpoliteDefaultHead(Last(m))) =>
                      r.text = morphs_to_string(Front(m)) \o FirstSupported(Last(m), slots) \o tail
               /\ (Len(m) >= 2 /\ IsAux(Last(m), <<"ta">>)
                   /\ ~IsAux(m[Len(m) - 1], S_desu) /\ ~IsAux(m[Len(m) - 1], S_masu)) =>
                      r.text = morphs_to_string(SubSeq(m, 1, Len(m) - 2))
                               \o FirstSupported(m[Len(m) - 1], <<"ContinuousTa", "Continuous">>)
                               \o FirstSupported(Ta, slots) \o tail

\* a verb whose paradigm has both slots of the list, before ta: the first
\* slot (ContinuousTa) won
C9_Witness ==
    /\ pc = "done"
    /\ mode = "impolite"
    /\ clauses = <<Part_with_sep(<<Kawaru, Ta>>, Period)>>
    /\ out = <<"kawa", "xtu", "ta", ".">>

\* ---- C11 ---------------------------------------------------------------
\* the scan is looking at a token: one iteration of the loop of
\* break_into_parts is about to run
ScanToken == pc = "scan" /\ curr # <<>>

\* a Period symbol, or a conjunctive particle whose lemma is ga
Breaker(t) ==
    \/ t.wordclass = "Symbol.Period"
    \/ (t.wordclass = "Postpositional.Conjunction" /\ t.basic = <<"ga">>)

\* C11: the token the scan looks at becomes the separator of a new clause if
\* and only if, once paren_level has been updated for it, paren_level is zero
\* and the token is a Period or the conjunction ga; every other token is
\* appended to the current body.
C11_SeparatorIffBreakerAtDepthZero ==
    [][ScanToken =>
         LET t == curr[1]
             declared == paren_level' = U32Zero /\ Breaker(t)
         IN  /\ declared <=> (parts' = Append(parts, Part_with_sep(part, t)) /\ part' = <<>>)
             /\ ~declared => (part' = Append(part, t) /\ parts' = parts)]_vars

\* ---- C12 ---------------------------------------------------------------
FinalParticle(t) ==
    t.wordclass \in {"Postpositional.End", "Postpositional.SupplementaryParallelEnd"}

\* where the maximal trailing run of final particles of a body starts
RunStart(m) ==
    CHOOSE i \in 1..(Len(m) + 1) :
        /\ \A j \in i..Len(m) : FinalParticle(m[j])
        /\ i = 1 \/ ~FinalParticle(m[i - 1])

\* the text of a clause is head ++ the run's surfaces ++ the separator
\* surface, where head is what the rules make of the body without the run
ParticlesReattached(r, w, p) ==
    LET i == RunStart(p.morphs)
        run == SubSeq(p.morphs, i, Len(p.morphs))
    IN  /\ r.ok = w.ok
        /\ r.ok => r.text = w.text \o morphs_to_string(run) \o SepSurface(p.sep)

\* C12: both transformers take the maximal trailing run of final particles
\* off the body before the rules look at it and emit its surfaces once, in
\* their original order, after the rewritten predicate and right before the
\* separator surface, which comes once and last; this holds at every
\* requested slot, also when the rule recurses on a shorter clause, and a
\* body that is nothing but the run comes out as particles ++ separator.
C12_FinalParticlesReattachedOnce ==
    JustReturned => \A c \in DOMAIN clauses :
        LET p == clauses[c]
            i == RunStart(p.morphs)
            m == SubSeq(p.morphs, 1, i - 1)
            run == morphs_to_string(SubSeq(p.morphs, i, Len(p.morphs)))
        IN  /\ \A slot \in {"Basic", "Negative", "NegativeU"} :
                  IF m = <<>> THEN ParticlesReattached(into_polite(p, slot), Ok(<<>>), p)
                  ELSE /\ ParticlesReattached(into_polite(p, slot),
                                              PoliteWithoutSep(Last(m), Front(m), slot), p)
                       /\ ParticlesReattached(into_polite(p, slot),
                                              into_polite(Part_new(m), slot), p)
            /\ \A slots \in SlotLists :
                  IF m = <<>> THEN ParticlesReattached(into_impolite(p, slots), Ok(<<>>), p)
                  ELSE /\ ParticlesReattached(into_impolite(p, slots),
                                              ImpoliteWithoutSep(Last(m), Front(m), run, slots), p)
                       /\ run # <<>> =>
                              ImpoliteWithoutSep(Last(m), Front(m), run, slots)
                                  = ImpoliteWithoutSep(Last(m), Front(m), <<"ka">>, slots)

\* a verb, the volitional u and a final particle: the u rule recursed on the
\* verb alone and the particle came out after it; and two different
\* particles keep their order under both transformers
C12_Witness ==
    /\ pc = "done"
    /\ mode = "polite"
    /\ clauses = <<Part_with_sep(<<Kawaru, U, Ka>>, Period)>>
    /\ out = <<"kawa", "ri", "ma", "shi", "xyo", "u", "ka", ".">>
    /\ into_polite(Part_with_sep(<<Tenki, Ka, Ne>>, Period), "Basic").text
           = <<"tenki", "de", "su", "ka", "ne", ".">>
    /\ into_impolite(Part_with_sep(<<Desu, Ne, Ka>>, Period), <<"Basic">>).text
           = <<"ne", "ka", ".">>

\* ---- C13 ---------------------------------------------------------------
\* the rule for a head h (lemma u or n) of clause p: the polite transform of
\* the remaining body at slot `inner`, then the head's kana `kana`, whatever
\* slot the clause itself was asked for
RecursOnRest(p, slot, inner, kana, mashou) ==
    LET i == RunStart(p.morphs)
        m == SubSeq(p.morphs, 1, i - 1)
        rest_ == Front(m)
        tail == morphs_to_string(SubSeq(p.morphs, i, Len(p.morphs))) \o SepSurface(p.sep)
        r == into_polite(p, slot)
        rec == into_polite(Part_new(rest_), inner)
        V == Last(rest_)
        cont == make_continuous(V.basic, V.surface, Conj(V))
    IN  /\ r.ok = rec.ok
        /\ r.ok => r.text = rec.text \o kana \o tail
        /\ ~r.ok => r.err = rec.err
        /\ r.asked = rec.asked
        /\ (rest_ # <<>> /\ V.wordclass = "Verb" /\ V.basic \notin {S_desu, S_masu}) =>
               /\ r.ok = cont.ok
               /\ r.ok => r.text = morphs_to_string(Front(rest_)) \o cont.text \o mashou \o tail
               /\ r.ok => r.asked = {<<S_masu, inner>>}
        /\ (rest_ # <<>> /\ IsAux(V, <<"da">>)) => r.asked = {<<S_desu, inner>>}

\* C13: into_polite rewrites a head with lemma u as the polite transform of
\* the remaining body at slot NegativeU followed by u, and a head with lemma
\* n as the transform at slot Negative followed by n.  After a verb V that
\* is prefix ++ continuative(V) ++ mashou resp. masen, and the copula table
\* is asked at the slot of the recursive call: da before u becomes deshou,
\* da before n finds no entry (desu, Negative) and the conversion aborts.
C13_VolitionalAndContractedNegative ==
    JustReturned => \A c \in DOMAIN clauses : \A slot \in {"Basic", "Negative", "NegativeU"} :
        LET p == clauses[c]
            m == SubSeq(p.morphs, 1, RunStart(p.morphs) - 1)
        IN  /\ (m # <<>> /\ Last(m).basic = <<"u">>) =>
                   /\ RecursOnRest(p, slot, "NegativeU", <<"u">>, <<"ma", "shi", "xyo", "u">>)
                   /\ (Len(m) >= 2 /\ IsAux(m[Len(m) - 1], <<"da">>)) =>
                          into_polite(p, slot).text
                              = morphs_to_string(SubSeq(m, 1, Len(m) - 2))
                                \o <<"de", "shi", "xyo", "u">>
                                \o morphs_to_string(SubSeq(p.morphs, Len(m) + 1, Len(p.morphs)))
                                \o SepSurface(p.sep)
            /\ (m # <<>> /\ Last(m).basic = <<"n">>) =>
                   /\ RecursOnRest(p, slot, "Negative", <<"n">>, <<"ma", "se", "n">>)
                   /\ (Len(m) >= 2 /\ IsAux(m[Len(m) - 1], <<"da">>)) =>
                          into_polite(p, slot).err = "UnsupportedCopulaPairing"

\* kawaru + u was made polite: kawarimashou; and yurusa + n gives
\* yurushimasen
C13_Witness ==
    /\ pc = "done"
    /\ mode = "polite"
    /\ clauses = <<Part_with_sep(<<Kawaru, U>>, Period)>>
    /\ out = <<"kawa", "ri", "ma", "shi", "xyo", "u", ".">>
    /\ into_polite(Part_with_sep(<<Yurusa, N>>, Period), "Basic").text
           = <<"yuru", "shi", "ma", "se", "n", ".">>

\* ---- C14 ---------------------------------------------------------------
\* the input the splitter has not consumed yet
Remaining == curr \o next \o rest

\* the tokens the splitter has put into clauses and into the current body
Consumed == Flatten(parts) \o part

\* each invocation was made on a body strictly shorter than its caller's
StrictlyShorter(calls, body) ==
    /\ calls # <<>>
    /\ calls[1] = Len(body)
    /\ \A i \in 1..(Len(calls) - 1) : calls[i + 1] < calls[i]
    /\ Len(calls) <= Len(body) + 1

\* C14: processing terminates.  Every run reaches the return of the String
\* or a panic; every iteration of the splitter loop that completes takes
\* exactly one token off the input and puts it into a clause, as body token
\* or as separator; and every invocation of into_polite / into_impolite
\* inside another is made on a strictly shorter body, so that the nesting
\* is bounded by the length of the clause.
C14_Terminates ==
    /\ <>(pc \in {"done", "panic"})
    /\ [][ScanToken => \/ pc' = "panic"
                       \/ /\ Remaining' = Tail(Remaining)
                          /\ Flatten(parts') \o part' = Append(Consumed, curr[1])]_vars
    /\ [](JustReturned => \A c \in DOMAIN clauses :
            /\ \A slot \in {"Basic", "Negative", "NegativeU"} :
                   StrictlyShorter(into_polite(clauses[c], slot).calls, clauses[c].morphs)
            /\ \A slots \in SlotLists :
                   StrictlyShorter(into_impolite(clauses[c], slots).calls, clauses[c].morphs))

\* a clause whose transform nests three invocations (u, then n, then the
\* verb) was transformed to the end
C14_Witness ==
    /\ pc = "done"
    /\ mode = "polite"
    /\ Len(clauses) = 1
    /\ Len(clauses[1].morphs) = 3
    /\ into_polite(clauses[1], "Basic").calls = <<3, 2, 1>>
    /\ into_impolite(Part_with_sep(<<Tenki, Desu, Ta>>, Period), <<"Basic">>).calls = <<3, 2>>

\* ---- C15 ---------------------------------------------------------------
\* the body of p without its final particles ends in ta + desu
TaDesu(p) ==
    LET m == SubSeq(p.morphs, 1, RunStart(p.morphs) - 1)
    IN  Len(m) >= 2 /\ IsAux(Last(m), S_desu) /\ IsAux(m[Len(m) - 1], <<"ta">>)

\* clause p with the desu before its final particles taken out
WithoutDesu(p) ==
    LET i == RunStart(p.morphs)
    IN  [morphs |-> SubSeq(p.morphs, 1, i - 2) \o SubSeq(p.morphs, i, Len(p.morphs)),
         sep |-> p.sep]

\* C15 as claimed: for ta + desu the plain transformer returns what its ta
\* rule returns for the clause without desu.
C15_DelegatesToTaRuleAsClaimed ==
    JustReturned => \A c \in DOMAIN clauses :
        TaDesu(clauses[c]) =>
            into_impolite(clauses[c], <<"Basic">>).text
                = into_impolite(WithoutDesu(clauses[c]), <<"Basic">>).text

\* C15 amended: for ta + desu the plain transformer only deletes desu: the
\* tokens before ta come out with their surfaces unchanged, then ta in the
\* first supported slot of the requested list, then particles and
\* separator.  That is the ta rule's result for the clause without desu when
\* nothing precedes ta, or when the token before ta is neither desu nor masu
\* and its conversion to {ContinuousTa, Continuous} is its own surface.
C15_TaDesuDropsDesu ==
    JustReturned => \A c \in DOMAIN clauses : \A slots \in SlotLists :
        LET p == clauses[c]
            i == RunStart(p.morphs)
            m == SubSeq(p.morphs, 1, i - 1)
            before == SubSeq(m, 1, Len(m) - 2)
            tail == morphs_to_string(SubSeq(p.morphs, i, Len(p.morphs))) \o SepSurface(p.sep)
            r == into_impolite(p, slots)
        IN  TaDesu(p) =>
                /\ r.ok
                /\ r.text = morphs_to_string(before) \o FirstSupported(Ta, slots) \o tail
                /\ (\/ before = <<>>
                    \/ /\ ~IsAux(Last(before), S_desu)
                       /\ ~IsAux(Last(before), S_masu)
                       /\ FirstSupported(Last(before), <<"ContinuousTa", "Continuous">>)
                              = Last(before).surface)
                       => r.text = into_impolite(WithoutDesu(p), slots).text

\* a verb in its dictionary form + ta + desu was made plain: desu is gone and
\* the verb is untouched, where the ta rule would have converted it; and
\* samukatta desu gives samukatta either way
C15_Witness ==
    /\ pc = "done"
    /\ mode = "impolite"
    /\ clauses = <<Part_with_sep(<<Kawaru, Ta, Desu>>, Period)>>
    /\ out = <<"kawa", "ru", "ta", ".">>
    /\ into_impolite(Part_with_sep(<<Kawaru, Ta>>, Period), <<"Basic">>).text
           = <<"kawa", "xtu", "ta", ".">>
    /\ into_impolite(Part_with_sep(<<Samukaxtu, Ta, Desu>>, Period), <<"Basic">>).text
           = <<"samu", "ka", "xtu", "ta", ".">>
    /\ into_impolite(Part_with_sep(<<Samukaxtu, Ta>>, Period), <<"Basic">>).text
           = <<"samu", "ka", "xtu", "ta", ".">>

====
